---------------------------- MODULE Spec2Model ----------------------------
(***************************************************************************)
(* Model of src/extract.rs of fetch_mediawiki_configuration: the           *)
(* extractors that turn a MediaWiki siteinfo query into normalized sets.   *)
(*                                                                         *)
(* Every extractor is a pure function of the query.  Each one is an        *)
(* operator computed as the code computes it, and each has a               *)
(* specification of its own whose Init draws the query from a bounded set  *)
(* and whose single action applies the extractor and stores what it        *)
(* returned.                                                               *)
(*                                                                         *)
(* Strings are sequences of one-character strings, so that strip_prefix,   *)
(* strip_suffix and to_lowercase are computed character by character.      *)
(* A char of the link trail is its Unicode scalar value (an integer),      *)
(* because class ranges are iterated from start to end.                    *)
(***************************************************************************)
EXTENDS Integers, Sequences, FiniteSets

VARIABLES
    query,             \* the siteinfo::response::Query the extractor reads
    parsed,            \* what the regular-expression parser answers for query.general.linktrail
    canonical,         \* namespaces' argument
    hir,               \* link_trail_characters' first argument (reducer run on its own)
    characters,        \* link_trail_characters' second argument, the caller's &mut BTreeSet<char>
    debug_assertions,  \* build profile: TRUE when debug_assert! is compiled in
    result,            \* what the extractor returned
    calls,             \* the calls link_trail made, in order
    pc                 \* "start" before the call, "done" after it

vars == <<query, parsed, canonical, hir, characters, debug_assertions, result, calls, pc>>

---------------------------------------------------------------------------
(* Bounds of the model.                                                    *)

\* Largest number of nodes of the sub-tree handed to the reducer.
MaxNodes == 4

\* Largest number of namespace descriptors and of namespace-alias records.
MaxNamespaces == 2

MaxNamespaceAliases == 1

\* Largest number of extension-tag markers.
MaxTags == 3

\* Largest number of strings (names and aliases together) of the magic words.
MaxMagicStrings == 3

---------------------------------------------------------------------------
(* Result, Option and panics.                                              *)

Ok(v) == [tag |-> "Ok", value |-> v]

Err(e) == [tag |-> "Err", error |-> e]

\* unreachable!() and a failed debug_assert! unwind: the call never returns.
Panic(msg) == [tag |-> "panic", message |-> msg]

Some(v) == [some |-> TRUE, value |-> v]

None == [some |-> FALSE]

---------------------------------------------------------------------------
(* regex_syntax::hir: the node kinds the code matches on.                  *)

Empty == [kind |-> "Empty"]

Anchor == [kind |-> "Anchor"]

WordBoundary == [kind |-> "WordBoundary"]

\* hir::Literal::Unicode(c)
LiteralUnicode(c) == [kind |-> "Literal", variant |-> "Unicode", c |-> c]

\* hir::Literal::Byte(b)
LiteralByte(b) == [kind |-> "Literal", variant |-> "Byte", b |-> b]

\* One range of a class, both endpoints included.
Range(start, end) == [start |-> start, end |-> end]

\* hir::Class::Unicode, a sequence of code-point ranges
ClassUnicode(ranges) == [kind |-> "Class", variant |-> "Unicode", ranges |-> ranges]

\* hir::Class::Bytes, a sequence of byte ranges
ClassBytes(ranges) == [kind |-> "Class", variant |-> "Bytes", ranges |-> ranges]

Concat(hirs) == [kind |-> "Concat", hirs |-> hirs]

Alternation(hirs) == [kind |-> "Alternation", hirs |-> hirs]

\* hir::Group: index 0 stands for a non-capturing group, i > 0 for CaptureIndex(i).
Group(index, inner) == [kind |-> "Group", index |-> index, hir |-> inner]

Repetition(inner) == [kind |-> "Repetition", hir |-> inner]

\* u8::is_ascii
is_ascii(b) == b <= 127

\* Mutant of RangeValues: start..end, the end of each range left out.
RangeValuesExclusive(ranges) ==
    UNION {ranges[i].start .. (ranges[i].end - 1) : i \in DOMAIN ranges}

\* The values start..=end of every range of a class.
RangeValues(ranges) == UNION {ranges[i].start .. ranges[i].end : i \in DOMAIN ranges}

---------------------------------------------------------------------------
(* link_trail_characters: the reducer.                                     *)
(* It returns [tag, characters]: tag is "Ok" for Ok(()), "Err" for         *)
(* Err(()), "panic" when the call unwinds; characters is the caller's set  *)
(* as the call left it.                                                    *)

Reduced(tag, chars) == [tag |-> tag, characters |-> chars]

\* The Class arm: every value of every range is inserted; a byte is
\* converted with b.into(), which keeps its value.  debug_assert! panics on
\* the first non-ASCII byte when debug assertions are compiled in.
ReduceClass(class, chars) ==
    IF class.variant = "Bytes"
    THEN IF debug_assertions /\ \E b \in RangeValues(class.ranges) : ~is_ascii(b)
         THEN Reduced("panic", chars \cup {b \in RangeValues(class.ranges) :
                         \A n \in RangeValues(class.ranges) : n <= b => is_ascii(n)})
         ELSE Reduced("Ok", chars \cup RangeValues(class.ranges))
    ELSE Reduced("Ok", chars \cup RangeValues(class.ranges))

\* Mutant of ReduceLiteral: a byte literal is rejected with Err(()) and a
\* char literal is accepted without being inserted.
ReduceLiteralLossy(literal, chars) ==
    IF literal.variant = "Byte"
    THEN Reduced("Err", chars)
    ELSE Reduced("Ok", chars)

\* The Literal arm.
ReduceLiteral(literal, chars) ==
    IF literal.variant = "Byte"
    THEN Reduced("panic", chars)
    ELSE Reduced("Ok", chars \cup {literal.c})

RECURSIVE link_trail_characters(_, _)
RECURSIVE ReduceAlternation(_, _, _)

\* The Alternation arm: the for loop from alternative i on; `?` leaves the
\* loop at the first alternative that fails.
ReduceAlternation(hirs, i, chars) ==
    IF i > Len(hirs)
    THEN Reduced("Ok", chars)
    ELSE LET r == link_trail_characters(hirs[i], chars)
         IN  IF r.tag = "Ok"
             THEN ReduceAlternation(hirs, i + 1, r.characters)
             ELSE r

link_trail_characters(h, chars) ==
    CASE h.kind = "Alternation" -> ReduceAlternation(h.hirs, 1, chars)
      [] h.kind = "Class"       -> ReduceClass(h, chars)
      [] h.kind = "Group"       -> link_trail_characters(h.hir, chars)
      [] h.kind = "Literal"     -> ReduceLiteral(h, chars)
      [] h.kind \in {"Anchor", "Concat", "Empty", "Repetition", "WordBoundary"}
                                -> Reduced("Err", chars)

---------------------------------------------------------------------------
(* The regular-expression boundary (crate::pcre): str::parse into a        *)
(* pcre::Pattern, and HirExt::find_group_index.                            *)

\* pcre::PatternParseError, which carries the string that did not parse.
PatternParseError(original) == [pattern |-> original]

\* original.parse::<pcre::Pattern>(): the parser's answer for the string is
\* the variable parsed; a Pattern holds the tree in its field hir.
parse(original) ==
    IF parsed.ok
    THEN Ok([hir |-> parsed.hir])
    ELSE Err(PatternParseError(original))

RECURSIVE find_group_index(_, _)
RECURSIVE FindGroupInSeq(_, _, _)

\* The first of hirs[i], hirs[i+1], ... that holds the group.
FindGroupInSeq(hirs, i, index) ==
    IF i > Len(hirs)
    THEN None
    ELSE LET found == find_group_index(hirs[i], index)
         IN  IF found.some THEN found ELSE FindGroupInSeq(hirs, i + 1, index)

\* The node that introduces capture group `index`, searched depth first.
find_group_index(h, index) ==
    CASE h.kind = "Group" ->
             IF h.index = index THEN Some(h) ELSE find_group_index(h.hir, index)
      [] h.kind = "Repetition" -> find_group_index(h.hir, index)
      [] h.kind \in {"Concat", "Alternation"} -> FindGroupInSeq(h.hirs, 1, index)
      [] OTHER -> None

---------------------------------------------------------------------------
(* link_trail: the extractor.                                              *)

GROUP_INDEX == 1

\* LinkTrailError::PCRE(source)
PCRE(source) == [kind |-> "PCRE", source |-> source]

\* LinkTrailError::GroupNotFound { pattern, index }
GroupNotFound(pattern, index) ==
    [kind |-> "GroupNotFound", pattern |-> pattern, index |-> index]

\* LinkTrailError::GroupInvalid { pattern, index }
GroupInvalid(pattern, index) ==
    [kind |-> "GroupInvalid", pattern |-> pattern, index |-> index]

\* What link_trail did: what it returned and the calls it made, in order
\* (a call of the reducer is recorded with the node it was handed).
Outcome(res, made) == [result |-> res, calls |-> made]

\* Mutant of Repeated: a node the reducer accepts (alternation, class,
\* group, literal) is handed to it as if it were repeated.
RepeatedOrReducible(group, original) ==
    CASE group.hir.kind = "Empty"      -> Ok(None)
      [] group.hir.kind = "Repetition" -> Ok(Some(group.hir.hir))
      [] group.hir.kind \in {"Alternation", "Class", "Group", "Literal"}
                                       -> Ok(Some(group.hir))
      [] group.hir.kind \in {"Anchor", "Concat", "WordBoundary"}
                                       -> Err(GroupInvalid(original, GROUP_INDEX))

\* The match on group.hir.kind(): Ok(None), Ok(Some(inner)) or the error.
Repeated(group, original) ==
    CASE group.hir.kind = "Empty"      -> Ok(None)
      [] group.hir.kind = "Repetition" -> Ok(Some(group.hir.hir))
      [] group.hir.kind \in {"Alternation", "Anchor", "Class", "Concat", "Group",
                             "Literal", "WordBoundary"}
                                       -> Err(GroupInvalid(original, GROUP_INDEX))

\* Mutant of Collect: a failure of the reducer is dropped and the characters
\* inserted before it are returned.
CollectPartial(repeated, original, made) ==
    IF repeated.some
    THEN LET r == link_trail_characters(repeated.value, {})
             now == made \o <<[fn |-> "link_trail_characters", hir |-> repeated.value]>>
         IN  IF r.tag = "panic"
             THEN Outcome(Panic("link_trail_characters"), now)
             ELSE Outcome(Ok(r.characters), now)
    ELSE Outcome(Ok({}), made)

\* From `let mut characters = Default::default()` to the end of link_trail.
Collect(repeated, original, made) ==
    IF repeated.some
    THEN LET r == link_trail_characters(repeated.value, {})
             now == made \o <<[fn |-> "link_trail_characters", hir |-> repeated.value]>>
         IN  CASE r.tag = "Ok"    -> Outcome(Ok(r.characters), now)
               [] r.tag = "Err"   -> Outcome(Err(GroupInvalid(original, GROUP_INDEX)), now)
               [] r.tag = "panic" -> Outcome(Panic("link_trail_characters"), now)
    ELSE Outcome(Ok({}), made)

\* Mutant of link_trail: a string that does not parse is treated as the
\* empty pattern instead of being returned as an error.
link_trail_parse_or_default(q) ==
    LET original == q.general.linktrail
        pattern  == parse(original)
        tree     == IF pattern.tag = "Err" THEN Empty ELSE pattern.value.hir
        group    == find_group_index(tree, GROUP_INDEX)
        made     == <<[fn |-> "parse"], [fn |-> "find_group_index"]>>
    IN  IF ~group.some
        THEN Outcome(Err(GroupNotFound(original, GROUP_INDEX)), made)
        ELSE LET repeated == Repeated(group.value, original)
             IN  IF repeated.tag = "Err"
                 THEN Outcome(repeated, made)
                 ELSE Collect(repeated.value, original, made)

link_trail(q) ==
    LET original == q.general.linktrail
        pattern  == parse(original)
    IN  IF pattern.tag = "Err"
        THEN Outcome(Err(PCRE(pattern.error)), <<[fn |-> "parse"]>>)
        ELSE LET group == find_group_index(pattern.value.hir, GROUP_INDEX)
                 made  == <<[fn |-> "parse"], [fn |-> "find_group_index"]>>
             IN  IF ~group.some
                 THEN Outcome(Err(GroupNotFound(original, GROUP_INDEX)), made)
                 ELSE LET repeated == Repeated(group.value, original)
                      IN  IF repeated.tag = "Err"
                          THEN Outcome(repeated, made)
                          ELSE Collect(repeated.value, original, made)

---------------------------------------------------------------------------
(* The trees the specifications draw from.                                 *)

\* The code points of the characters the trees are built from.
CodePoint ==
    [ c0 |-> 48, c9 |-> 57, A |-> 65, F |-> 70, S |-> 83, a |-> 97, s |-> 115, z |-> 122 ]

\* Leaves the parser produces: every literal is a char and every byte of a
\* byte class is ASCII.  A concatenation and a repetition end the reduction
\* whatever they hold, so one of each stands for all.
ParsedLeaves ==
    { Empty, Anchor, WordBoundary,
      Concat(<<LiteralUnicode(CodePoint.s), LiteralUnicode(CodePoint.s)>>),
      Repetition(LiteralUnicode(CodePoint.s)),
      LiteralUnicode(CodePoint.s), LiteralUnicode(CodePoint.S),
      ClassUnicode(<<Range(CodePoint.a, CodePoint.z)>>),
      ClassUnicode(<<Range(CodePoint.c0, CodePoint.c9)>>),
      ClassBytes(<<Range(CodePoint.c0, CodePoint.c9), Range(CodePoint.A, CodePoint.F)>>) }

\* Leaves of hir::Hir the parser does not produce for a UTF-8 pattern: a
\* byte literal and a byte class with bytes above 127.
ByteLeaves ==
    { LiteralByte(255), ClassBytes(<<Range(CodePoint.c0, CodePoint.c9), Range(254, 255)>>) }

\* Group kinds inside the repeated sub-tree: non-capturing and capture group 2.
InnerGroups == {0, 2}

\* A place of a shape where a leaf goes.
Hole == [kind |-> "Hole"]

RECURSIVE ShapesOfSize(_)
RECURSIVE ShapeSeqsOfSize(_)

\* The sequences of shapes with n nodes in all.
ShapeSeqsOfSize(n) ==
    IF n = 0
    THEN {<<>>}
    ELSE UNION { { <<t>> \o rest : t \in ShapesOfSize(k), rest \in ShapeSeqsOfSize(n - k) }
                 : k \in 1..n }

\* The shapes with exactly n nodes: a hole, a group around a shape, or an
\* alternation of two or more shapes.
ShapesOfSize(n) ==
    IF n = 1
    THEN {Hole}
    ELSE { Group(g, t) : g \in InnerGroups, t \in ShapesOfSize(n - 1) }
         \cup { Alternation(ts) : ts \in {x \in ShapeSeqsOfSize(n - 1) : Len(x) >= 2} }

\* The shapes with at most MaxNodes nodes.
Shapes == UNION { ShapesOfSize(n) : n \in 1..MaxNodes }

RECURSIVE Holes(_)
RECURSIVE HolesBefore(_, _)

\* The number of holes of hirs[1], ..., hirs[j - 1].
HolesBefore(hirs, j) ==
    IF j <= 1 THEN 0 ELSE HolesBefore(hirs, j - 1) + Holes(hirs[j - 1])

\* The number of holes of a shape.
Holes(shape) ==
    CASE shape.kind = "Hole"        -> 1
      [] shape.kind = "Group"       -> Holes(shape.hir)
      [] shape.kind = "Alternation" -> HolesBefore(shape.hirs, Len(shape.hirs) + 1)

RECURSIVE Fill(_, _, _)

\* The tree of a shape: its holes, left to right, hold fill[base + 1], fill[base + 2], ...
Fill(shape, fill, base) ==
    CASE shape.kind = "Hole"        -> fill[base + 1]
      [] shape.kind = "Group"       -> Group(shape.index, Fill(shape.hir, fill, base))
      [] shape.kind = "Alternation" ->
             Alternation([j \in 1..Len(shape.hirs) |->
                             Fill(shape.hirs[j], fill, base + HolesBefore(shape.hirs, j))])

\* What capture group 1 can hold besides a repetition: nothing, or one node
\* of each other kind.
OtherContents ==
    { Empty,
      Alternation(<<LiteralUnicode(CodePoint.s), ClassUnicode(<<Range(CodePoint.c0, CodePoint.c9)>>)>>),
      Anchor, WordBoundary,
      ClassUnicode(<<Range(CodePoint.a, CodePoint.z)>>),
      Concat(<<LiteralUnicode(CodePoint.s), LiteralUnicode(CodePoint.s)>>),
      Group(0, Repetition(LiteralUnicode(CodePoint.s))),
      LiteralUnicode(CodePoint.s) }

\* The rest of the pattern, as in /^(...)(.*)$/: the second capture group.
Rest == Group(3, Repetition(ClassUnicode(<<Range(0, 127)>>)))

\* Whole patterns around a group content x: group 1 alone, group 1 inside a
\* concatenation, group 1 below a non-capturing group, and no group 1.
PatternsAround(x) ==
    { Group(1, x),
      Concat(<<Anchor, Group(1, x), Rest, Anchor>>),
      Concat(<<Anchor, Group(0, Alternation(<<Empty, Group(1, x)>>)), Rest>>),
      Concat(<<Anchor, Group(0, x), Rest, Anchor>>) }

\* The parser's answer when the string parses to the tree p.
Parsed(p) == [ok |-> TRUE, hir |-> p]

\* general.linktrail: the model does not read the text, only carries it.
LinkTrails == { "/^([a-z]+)(.*)$/sD", "/^()(.*)$/sD" }

\* A Query with nothing in it but the link trail.
EmptyQuery ==
    [ namespaces |-> <<>>, namespacealiases |-> <<>>, extensiontags |-> <<>>,
      protocols |-> <<>>, general |-> [linktrail |-> ""], magicwords |-> <<>> ]

NoResult == [tag |-> "none"]

---------------------------------------------------------------------------
(* link_trail on a query.                                                  *)

InitLinkTrail ==
    /\ query \in { [EmptyQuery EXCEPT !.general.linktrail = s] : s \in LinkTrails }
    /\ \/ parsed = [ok |-> FALSE]
       \/ \E x \in OtherContents : parsed \in { Parsed(p) : p \in PatternsAround(x) }
       \/ \E shape \in Shapes : \E fill \in [1..Holes(shape) -> ParsedLeaves] :
            parsed \in { Parsed(p) : p \in PatternsAround(Repetition(Fill(shape, fill, 0))) }
    /\ debug_assertions \in BOOLEAN
    /\ canonical = <<>>
    /\ hir = Empty
    /\ characters = {}
    /\ result = NoResult
    /\ calls = <<>>
    /\ pc = "start"

LinkTrail ==
    /\ pc = "start"
    /\ result' = link_trail(query).result
    /\ calls' = link_trail(query).calls
    /\ pc' = "done"
    /\ UNCHANGED <<query, parsed, canonical, hir, characters, debug_assertions>>

NextLinkTrail == LinkTrail

SpecLinkTrail == InitLinkTrail /\ [][NextLinkTrail]_vars

---------------------------------------------------------------------------
(* link_trail_characters on a node of any kind, with a set of the caller's. *)

InitReducer ==
    /\ \E shape \in Shapes : \E fill \in [1..Holes(shape) -> ParsedLeaves \cup ByteLeaves] :
            hir = Fill(shape, fill, 0)
    /\ characters \in { {}, {CodePoint.z} }
    /\ debug_assertions \in BOOLEAN
    /\ query = EmptyQuery
    /\ parsed = [ok |-> FALSE]
    /\ canonical = <<>>
    /\ result = NoResult
    /\ calls = <<>>
    /\ pc = "start"

Reduce ==
    /\ pc = "start"
    /\ result' = [tag |-> link_trail_characters(hir, characters).tag]
    /\ characters' = link_trail_characters(hir, characters).characters
    /\ calls' = <<[fn |-> "link_trail_characters", hir |-> hir]>>
    /\ pc' = "done"
    /\ UNCHANGED <<query, parsed, canonical, hir, debug_assertions>>

NextReducer == Reduce

SpecReducer == InitReducer /\ [][NextReducer]_vars

---------------------------------------------------------------------------
(* Strings: str::to_lowercase, str::strip_prefix, str::strip_suffix.       *)

UpperLetters ==
    << "A", "B", "C", "D", "E", "F", "G", "H", "I", "J", "K", "L", "M",
       "N", "O", "P", "Q", "R", "S", "T", "U", "V", "W", "X", "Y", "Z" >>

LowerLetters ==
    << "a", "b", "c", "d", "e", "f", "g", "h", "i", "j", "k", "l", "m",
       "n", "o", "p", "q", "r", "s", "t", "u", "v", "w", "x", "y", "z" >>

\* char::to_lowercase on the characters of the model: an uppercase ASCII
\* letter becomes its lowercase letter, every other character stays.
to_lowercase_char(c) ==
    IF \E i \in DOMAIN UpperLetters : UpperLetters[i] = c
    THEN LowerLetters[CHOOSE i \in DOMAIN UpperLetters : UpperLetters[i] = c]
    ELSE c

\* str::to_lowercase
to_lowercase(s) == [i \in 1..Len(s) |-> to_lowercase_char(s[i])]

\* str::strip_prefix: Some(the rest) when s starts with prefix, None otherwise.
strip_prefix(s, prefix) ==
    IF Len(s) >= Len(prefix) /\ SubSeq(s, 1, Len(prefix)) = prefix
    THEN Some(SubSeq(s, Len(prefix) + 1, Len(s)))
    ELSE None

\* str::strip_suffix: Some(the start) when s ends with suffix, None otherwise.
strip_suffix(s, suffix) ==
    IF Len(s) >= Len(suffix) /\ SubSeq(s, Len(s) - Len(suffix) + 1, Len(s)) = suffix
    THEN Some(SubSeq(s, 1, Len(s) - Len(suffix)))
    ELSE None

---------------------------------------------------------------------------
(* namespaces.  query.namespaces is the sequence of the mapping's values   *)
(* in the order values() yields them.                                      *)

NamespaceNotFoundError(name) == [kind |-> "NamespaceNotFound", name |-> name]

\* Mutant of CanonicalIs: an absent canonical name counts as the empty string.
CanonicalOrEmptyIs(ns, name) ==
    (IF ns.canonical.some THEN ns.canonical.value ELSE <<>>) = name

\* The closure of find: ns.canonical.as_ref().map(AsRef::as_ref) == Some(canonical)
CanonicalIs(ns, name) == ns.canonical = Some(name)

\* Iterator::find over values(): the first descriptor the closure accepts.
FindNamespace(q, name) ==
    IF \E i \in DOMAIN q.namespaces : CanonicalIs(q.namespaces[i], name)
    THEN Some(q.namespaces[CHOOSE i \in DOMAIN q.namespaces :
                  /\ CanonicalIs(q.namespaces[i], name)
                  /\ \A j \in 1..(i - 1) : ~CanonicalIs(q.namespaces[j], name)])
    ELSE None

\* Mutant of namespaces: the aliases are not filtered by namespace id.
namespaces_every_alias(q, name) ==
    LET namespace == FindNamespace(q, name)
    IN  IF ~namespace.some
        THEN Err(NamespaceNotFoundError(name))
        ELSE Ok({ to_lowercase(n) :
                    n \in { q.namespacealiases[i].alias : i \in DOMAIN q.namespacealiases }
                          \cup {name} \cup {namespace.value.name} })

namespaces(q, name) ==
    LET namespace == FindNamespace(q, name)
    IN  IF ~namespace.some
        THEN Err(NamespaceNotFoundError(name))
        ELSE LET aliases == { i \in DOMAIN q.namespacealiases :
                                  q.namespacealiases[i].id = namespace.value.id }
                 names   == { q.namespacealiases[i].alias : i \in aliases }
                            \cup {name} \cup {namespace.value.name}
             IN  Ok({ to_lowercase(n) : n \in names })

---------------------------------------------------------------------------
(* extension_tags                                                          *)

MalformedExtensionTagError(tag) == [kind |-> "MalformedExtensionTag", tag |-> tag]

\* The closure of map: the marker without its "<" and ">" in lowercase, or
\* the error carrying the marker.
ExtensionTagName(et) ==
    LET s == strip_prefix(et, <<"<">>)
        t == IF s.some THEN strip_suffix(s.value, <<">">>) ELSE None
    IN  IF t.some THEN Ok(to_lowercase(t.value)) ELSE Err(MalformedExtensionTagError(et))

RECURSIVE CollectTags(_, _, _)

\* collect::<Result<BTreeSet<_>, _>>() from marker i on: the first error
\* ends the iteration and is the result.
CollectTags(tags, i, names) ==
    IF i > Len(tags)
    THEN Ok(names)
    ELSE LET name == ExtensionTagName(tags[i])
         IN  IF name.tag = "Err"
             THEN name
             ELSE CollectTags(tags, i + 1, names \cup {name.value})

\* Mutant of extension_tags: a malformed marker is skipped (filter_map).
extension_tags_skipping(q) ==
    Ok({ ExtensionTagName(q.extensiontags[i]).value :
           i \in { j \in DOMAIN q.extensiontags : ExtensionTagName(q.extensiontags[j]).tag = "Ok" } })

extension_tags(q) == CollectTags(q.extensiontags, 1, {})

---------------------------------------------------------------------------
(* magic_words and magic_words_redirect                                    *)

\* flat_map: the aliases of every record and its name.
AliasesAndNames(q) ==
    UNION { { q.magicwords[i].aliases[j] : j \in DOMAIN q.magicwords[i].aliases }
            \cup { q.magicwords[i].name } : i \in DOMAIN q.magicwords }

\* The closure of filter_map: s.strip_prefix("__").and_then(|s| s.strip_suffix("__"))
StripUnderscores(s) ==
    LET t == strip_prefix(s, <<"_", "_">>)
    IN  IF t.some THEN strip_suffix(t.value, <<"_", "_">>) ELSE None

\* Mutant of magic_words: only the leading "__" is required and removed.
magic_words_prefix_only(q) ==
    { to_lowercase(strip_prefix(s, <<"_", "_">>).value) :
        s \in { x \in AliasesAndNames(q) : strip_prefix(x, <<"_", "_">>).some } }

magic_words(q) ==
    { to_lowercase(StripUnderscores(s).value) :
        s \in { x \in AliasesAndNames(q) : StripUnderscores(x).some } }

NAME == << "r", "e", "d", "i", "r", "e", "c", "t" >>

PREFIX == << "#" >>

\* The closure of map: s.strip_prefix(PREFIX).unwrap_or(s)
StripHash(s) ==
    IF strip_prefix(s, PREFIX).some THEN strip_prefix(s, PREFIX).value ELSE s

RECURSIVE TrimHashes(_)

\* str::trim_start_matches(PREFIX): every leading "#" removed.
TrimHashes(s) == IF strip_prefix(s, PREFIX).some THEN TrimHashes(strip_prefix(s, PREFIX).value) ELSE s

\* The aliases of the records named NAME.
RedirectAliases(q) ==
    UNION { { q.magicwords[i].aliases[j] : j \in DOMAIN q.magicwords[i].aliases }
            : i \in { k \in DOMAIN q.magicwords : q.magicwords[k].name = NAME } }

\* Mutant of magic_words_redirect: every leading "#" of an alias is removed.
magic_words_redirect_trimming(q) ==
    { to_lowercase(s) : s \in { TrimHashes(a) : a \in RedirectAliases(q) } \cup {NAME} }

magic_words_redirect(q) ==
    { to_lowercase(s) : s \in { StripHash(a) : a \in RedirectAliases(q) } \cup {NAME} }

---------------------------------------------------------------------------
(* namespaces on a query and a requested name.                             *)

\* Namespace.canonical: absent, empty, and two names that differ in case only.
CanonicalNames == { None, Some(<<>>), Some(<<"T">>), Some(<<"t">>) }

\* Namespace.name, the localized name.
LocalizedNames == { <<"N">>, <<"t">> }

\* NamespaceAlias.alias
AliasNames == { <<"A">>, <<"n">> }

\* The names asked for.
RequestedNames == { <<>>, <<"T">>, <<"t">> }

NamespaceIds == 0..(MaxNamespaces - 1)

Injective(f) == \A i, j \in DOMAIN f : f[i] = f[j] => i = j

InitNamespaces ==
    /\ \E n \in 0..MaxNamespaces : \E m \in 0..MaxNamespaceAliases :
       \E ids \in { f \in [1..n -> NamespaceIds] : Injective(f) } :
       \E canonicals \in [1..n -> CanonicalNames] : \E names \in [1..n -> LocalizedNames] :
       \E aliases \in [1..m -> AliasNames] : \E owners \in [1..m -> NamespaceIds] :
          query = [ EmptyQuery EXCEPT
                      !.namespaces = [i \in 1..n |-> [ id |-> ids[i],
                                                       canonical |-> canonicals[i],
                                                       name |-> names[i] ]],
                      !.namespacealiases = [i \in 1..m |-> [ id |-> owners[i],
                                                             alias |-> aliases[i] ]] ]
    /\ canonical \in RequestedNames
    /\ parsed = [ok |-> FALSE]
    /\ debug_assertions = FALSE
    /\ hir = Empty
    /\ characters = {}
    /\ result = NoResult
    /\ calls = <<>>
    /\ pc = "start"

Namespaces ==
    /\ pc = "start"
    /\ result' = namespaces(query, canonical)
    /\ calls' = <<[fn |-> "namespaces"]>>
    /\ pc' = "done"
    /\ UNCHANGED <<query, parsed, canonical, hir, characters, debug_assertions>>

NextNamespaces == Namespaces

SpecNamespaces == InitNamespaces /\ [][NextNamespaces]_vars

---------------------------------------------------------------------------
(* extension_tags on a query.                                              *)

\* ExtensionTag.0: well-formed markers, markers lacking one or both
\* delimiters, a marker with two of each, and the empty string.
TagMarkers ==
    { <<"<", "A", ">">>, <<"<", "b", ">">>, <<"<", ">">>,
      <<"A", ">">>, <<"<", "A">>, <<"A">>,
      <<"<", "<", "A", ">", ">">>, <<>> }

InitExtensionTags ==
    /\ \E n \in 0..MaxTags : \E tags \in [1..n -> TagMarkers] :
          query = [ EmptyQuery EXCEPT !.extensiontags = tags ]
    /\ canonical = <<>>
    /\ parsed = [ok |-> FALSE]
    /\ debug_assertions = FALSE
    /\ hir = Empty
    /\ characters = {}
    /\ result = NoResult
    /\ calls = <<>>
    /\ pc = "start"

ExtensionTags ==
    /\ pc = "start"
    /\ result' = extension_tags(query)
    /\ calls' = <<[fn |-> "extension_tags"]>>
    /\ pc' = "done"
    /\ UNCHANGED <<query, parsed, canonical, hir, characters, debug_assertions>>

NextExtensionTags == ExtensionTags

SpecExtensionTags == InitExtensionTags /\ [][NextExtensionTags]_vars

---------------------------------------------------------------------------
(* magic_words and magic_words_redirect on a query.                        *)

\* MagicWord.name and MagicWord.aliases: strings with both, one or no
\* double-underscore marker, strings of two, three and four underscores,
\* and the redirect word with aliases with one, two or no leading "#".
MagicStrings ==
    { <<"_", "_", "A", "_", "_">>, <<"_", "_", "b", "_", "_">>,
      <<"_", "_", "A">>, <<"b", "_", "_">>,
      <<"_", "_">>, <<"_", "_", "_">>, <<"_", "_", "_", "_">>,
      NAME, <<"R", "e", "d", "i", "r", "e", "c", "t">>,
      <<"#", "R", "E", "D", "I", "R", "E", "C", "T">>, <<"#", "#", "r">>, <<"R">> }

RECURSIVE Layouts(_)

\* The sequences of alias counts of records holding at most n strings in all.
Layouts(n) ==
    {<<>>} \cup UNION { { <<a>> \o rest : rest \in Layouts(n - 1 - a) } : a \in 0..(n - 1) }

RECURSIVE StringsBefore(_, _)

\* The number of strings of the records before record i.
StringsBefore(layout, i) ==
    IF i <= 1 THEN 0 ELSE StringsBefore(layout, i - 1) + 1 + layout[i - 1]

\* The magic words of a layout: the strings of fill, in order, record by
\* record, each record's name first and its aliases after.
MagicWordsOf(layout, fill) ==
    [ i \in 1..Len(layout) |->
        [ name    |-> fill[StringsBefore(layout, i) + 1],
          aliases |-> [ j \in 1..layout[i] |-> fill[StringsBefore(layout, i) + 1 + j] ] ] ]

InitMagicWords ==
    /\ \E layout \in Layouts(MaxMagicStrings) :
       \E fill \in [1..StringsBefore(layout, Len(layout) + 1) -> MagicStrings] :
          query = [ EmptyQuery EXCEPT !.magicwords = MagicWordsOf(layout, fill) ]
    /\ canonical = <<>>
    /\ parsed = [ok |-> FALSE]
    /\ debug_assertions = FALSE
    /\ hir = Empty
    /\ characters = {}
    /\ result = NoResult
    /\ calls = <<>>
    /\ pc = "start"

MagicWords ==
    /\ pc = "start"
    /\ result' = magic_words(query)
    /\ calls' = <<[fn |-> "magic_words"]>>
    /\ pc' = "done"
    /\ UNCHANGED <<query, parsed, canonical, hir, characters, debug_assertions>>

MagicWordsRedirect ==
    /\ pc = "start"
    /\ result' = magic_words_redirect(query)
    /\ calls' = <<[fn |-> "magic_words_redirect"]>>
    /\ pc' = "done"
    /\ UNCHANGED <<query, parsed, canonical, hir, characters, debug_assertions>>

NextMagicWords == MagicWords \/ MagicWordsRedirect

SpecMagicWords == InitMagicWords /\ [][NextMagicWords]_vars

---------------------------------------------------------------------------
(* What the statements about link_trail speak of, read off the tree itself. *)

RECURSIVE AllNodes(_)

\* Every node of a tree.
AllNodes(t) ==
    {t} \cup
    CASE t.kind \in {"Group", "Repetition"}   -> AllNodes(t.hir)
      [] t.kind \in {"Concat", "Alternation"} -> UNION { AllNodes(t.hirs[i]) : i \in DOMAIN t.hirs }
      [] OTHER -> {}

RECURSIVE ReachableNodes(_)

\* The nodes of a tree reachable from its root through alternations and groupings.
ReachableNodes(t) ==
    {t} \cup
    CASE t.kind = "Group"       -> ReachableNodes(t.hir)
      [] t.kind = "Alternation" -> UNION { ReachableNodes(t.hirs[i]) : i \in DOMAIN t.hirs }
      [] OTHER -> {}

\* The pattern parsed and has capture group 1.
HasGroup1 ==
    parsed.ok /\ \E n \in AllNodes(parsed.hir) : n.kind = "Group" /\ n.index = 1

\* The top-level node of capture group 1.
Group1Top ==
    (CHOOSE n \in AllNodes(parsed.hir) : n.kind = "Group" /\ n.index = 1).hir

\* Group 1 is a repetition; RepeatedTree is the repeated sub-tree.
Group1Repeats == HasGroup1 /\ Group1Top.kind = "Repetition"

RepeatedTree == Group1Top.hir

\* The characters a literal or a class stands for, both range endpoints included.
NodeChars(n) ==
    CASE n.kind = "Literal" -> {n.c}
      [] n.kind = "Class"   -> { c \in 0..255 : \E i \in DOMAIN n.ranges :
                                     n.ranges[i].start <= c /\ c <= n.ranges[i].end }
      [] OTHER -> {}

LowercaseLetters == CodePoint.a..CodePoint.z

\* C1: when the pattern parses, has group 1, group 1 is a repetition and
\* the repeated sub-tree holds only alternations, groupings, literal
\* characters and classes, link_trail returns Ok with exactly the union of
\* the literals' characters and the values of the class ranges.
C1_ReducibleYieldsUnion ==
    (pc = "done" /\ Group1Repeats
       /\ \A n \in ReachableNodes(RepeatedTree) :
              n.kind \in {"Alternation", "Group", "Literal", "Class"})
    => result = Ok(UNION { NodeChars(n) : n \in ReachableNodes(RepeatedTree) })

\* C1 happens: ([a-z])* gave the 26 lowercase letters without their
\* uppercase forms.
C1_Witness ==
    /\ pc = "done"
    /\ Group1Repeats
    /\ RepeatedTree = ClassUnicode(<<Range(CodePoint.a, CodePoint.z)>>)
    /\ result = Ok(LowercaseLetters)
    /\ Cardinality(result.value) = 26

\* The kinds the reducer rejects.
RejectedKinds == {"Anchor", "Concat", "Empty", "Repetition", "WordBoundary"}

\* C2: when group 1 is a repetition and a rejected node is reachable in the
\* repeated sub-tree through alternations and groupings, link_trail returns
\* GroupInvalid with the original pattern string and index 1, never a set.
C2_RejectedNodeIsGroupInvalid ==
    (pc = "done" /\ Group1Repeats
       /\ \E n \in ReachableNodes(RepeatedTree) : n.kind \in RejectedKinds)
    => result = Err([kind |-> "GroupInvalid", pattern |-> query.general.linktrail,
                     index |-> 1])

\* C2 happens: the rejected node is the last alternative, inside a group,
\* after a literal that was already inserted.
C2_Witness ==
    /\ pc = "done"
    /\ Group1Repeats
    /\ RepeatedTree = Alternation(<<LiteralUnicode(CodePoint.s), Group(0, WordBoundary)>>)
    /\ result.tag = "Err"
    /\ result.error.kind = "GroupInvalid"

\* The reducer was called, and with which node.
ReducerCalls == { i \in DOMAIN calls : calls[i].fn = "link_trail_characters" }

\* C3: the top-level node of group 1 decides: Empty gives Ok of the empty
\* set and the reducer is not called; a repetition hands its inner node to
\* the reducer; any other kind gives GroupInvalid with the original pattern
\* string and index 1 and the reducer is not called.
C3_TopLevelClassification ==
    (pc = "done" /\ HasGroup1) =>
        CASE Group1Top.kind = "Empty" ->
                 result = Ok({}) /\ ReducerCalls = {}
          [] Group1Top.kind = "Repetition" ->
                 /\ Cardinality(ReducerCalls) = 1
                 /\ \A i \in ReducerCalls : calls[i].hir = Group1Top.hir
          [] OTHER ->
                 /\ result = Err([kind |-> "GroupInvalid",
                                  pattern |-> query.general.linktrail, index |-> 1])
                 /\ ReducerCalls = {}

\* C3 happens: group 1 is a bare literal, which the reducer would accept.
C3_Witness ==
    /\ pc = "done"
    /\ HasGroup1
    /\ Group1Top = LiteralUnicode(CodePoint.s)
    /\ result.tag = "Err"
    /\ ReducerCalls = {}

\* C4: a string that does not parse gives the wrapped parse error with the
\* original string and only parse was called; a pattern without group 1
\* gives GroupNotFound with the original string and index 1; GroupInvalid
\* comes only from a pattern that parsed and has group 1.
C4_FailureOrder ==
    pc = "done" =>
        /\ ~parsed.ok =>
               /\ result = Err([kind |-> "PCRE",
                                source |-> [pattern |-> query.general.linktrail]])
               /\ calls = <<[fn |-> "parse"]>>
        /\ (parsed.ok /\ ~HasGroup1) =>
               result = Err([kind |-> "GroupNotFound",
                             pattern |-> query.general.linktrail, index |-> 1])
        /\ (result.tag = "Err" /\ result.error.kind = "GroupInvalid") => HasGroup1

\* C4 happens: the pattern parsed, holds no group 1, and GroupNotFound came back.
C4_Witness ==
    /\ pc = "done"
    /\ parsed.ok
    /\ ~HasGroup1
    /\ result.tag = "Err"
    /\ result.error.kind = "GroupNotFound"

\* C10 as stated: the reducer returns Ok or Err for every node of every
\* kind and variant, and for a literal it inserts the literal's character
\* and returns Ok.
C10_ReducerTotal ==
    (pc = "done" /\ calls = <<[fn |-> "link_trail_characters", hir |-> hir]>>) =>
        /\ result.tag \in {"Ok", "Err"}
        /\ hir.kind = "Literal" =>
               /\ result.tag = "Ok"
               /\ (IF hir.variant = "Unicode" THEN hir.c ELSE hir.b) \in characters

\* A node on which the reducer unwinds: a byte literal, and, with debug
\* assertions compiled in, a byte class that holds a byte above 127.
Unwinds(n) ==
    \/ n.kind = "Literal" /\ n.variant = "Byte"
    \/ /\ debug_assertions
       /\ n.kind = "Class" /\ n.variant = "Bytes"
       /\ \E i \in DOMAIN n.ranges : n.ranges[i].end > 127

\* C10 amended: the reducer returns Ok or Err for every node in which no
\* byte literal and (with debug assertions) no byte class with a non-ASCII
\* byte is reachable; for a char literal it inserts the character and
\* returns Ok; on a byte literal it unwinds.
C10_ReducerTotalOnChars ==
    (pc = "done" /\ calls = <<[fn |-> "link_trail_characters", hir |-> hir]>>) =>
        /\ (\A n \in ReachableNodes(hir) : ~Unwinds(n)) => result.tag \in {"Ok", "Err"}
        /\ (hir.kind = "Literal" /\ hir.variant = "Unicode") =>
               result.tag = "Ok" /\ hir.c \in characters
        /\ (hir.kind = "Literal" /\ hir.variant = "Byte") => result.tag = "panic"

\* C10 happens: the reducer was handed the char literal 's' with an empty
\* set, returned Ok and left 's' in the set.
C10_Witness ==
    /\ pc = "done"
    /\ calls = <<[fn |-> "link_trail_characters", hir |-> hir]>>
    /\ hir = LiteralUnicode(CodePoint.s)
    /\ result.tag = "Ok"
    /\ characters = {CodePoint.s}

---------------------------------------------------------------------------
(* What the statements about the flat extractors speak of.                 *)

\* The lowercase names of one descriptor: its canonical name, its localized
\* name and the aliases whose namespace id is its id.
OwnNames(ns) ==
    { to_lowercase(ns.canonical.value), to_lowercase(ns.name) }
    \cup { to_lowercase(query.namespacealiases[k].alias) :
             k \in { a \in DOMAIN query.namespacealiases :
                       query.namespacealiases[a].id = ns.id } }

\* Descriptor i has the requested name as its canonical name.
Requested(i) ==
    /\ query.namespaces[i].canonical.some
    /\ query.namespaces[i].canonical.value = canonical

\* C5 as stated: for every descriptor with a canonical name, asking for that
\* name returns Ok with that descriptor's lowercase names and nothing from
\* another namespace, also when several descriptors share the name.
C5_EveryDescriptor ==
    pc = "done" =>
        \A i \in DOMAIN query.namespaces :
            Requested(i) => result = Ok(OwnNames(query.namespaces[i]))

\* C5 amended: asking for a canonical name returns Ok with exactly the
\* lowercase names of the first descriptor, in the order the mapping yields
\* its values, that has this canonical name; so the statement holds for
\* every descriptor whose canonical name no earlier descriptor shares.
C5_FirstDescriptor ==
    pc = "done" =>
        \A i \in DOMAIN query.namespaces :
            (Requested(i) /\ \A j \in 1..(i - 1) : ~Requested(j))
            => result = Ok(OwnNames(query.namespaces[i]))

\* C5 happens: two descriptors share the requested name, an alias points at
\* the second one only, and the first one's names came back.
C5_Witness ==
    /\ pc = "done"
    /\ Len(query.namespaces) = 2
    /\ Requested(1) /\ Requested(2)
    /\ Len(query.namespacealiases) = 1
    /\ query.namespacealiases[1].id = query.namespaces[2].id
    /\ result = Ok(OwnNames(query.namespaces[1]))
    /\ result # Ok(OwnNames(query.namespaces[2]))

\* C6: namespaces returns NamespaceNotFound with the requested string
\* exactly when no descriptor's canonical name is present and equal to it,
\* whatever the localized names and the aliases are.
C6_NotFoundIffNoCanonical ==
    pc = "done" =>
        IF \E i \in DOMAIN query.namespaces : Requested(i)
        THEN result.tag = "Ok"
        ELSE result = Err([kind |-> "NamespaceNotFound", name |-> canonical])

\* C6 happens: the empty string is requested, a descriptor without a
\* canonical name is present, and the empty string is not found.
C6_Witness ==
    /\ pc = "done"
    /\ canonical = <<>>
    /\ \E i \in DOMAIN query.namespaces : ~query.namespaces[i].canonical.some
    /\ result = Err([kind |-> "NamespaceNotFound", name |-> <<>>])

\* A marker that starts with "<" and ends with ">".
Delimited(m) == Len(m) >= 1 /\ m[1] = "<" /\ m[Len(m)] = ">"

\* C7: when every marker is delimited the result is Ok with the lowercase
\* markers without their first and last character; otherwise it is
\* MalformedExtensionTag with the first marker, in list order, that is not.
C7_AllOrNothing ==
    pc = "done" =>
        LET tags == query.extensiontags
            bad  == { i \in DOMAIN tags : ~Delimited(tags[i]) }
        IN  IF bad = {}
            THEN result = Ok({ to_lowercase(SubSeq(tags[i], 2, Len(tags[i]) - 1)) :
                                 i \in DOMAIN tags })
            ELSE result = Err([kind |-> "MalformedExtensionTag",
                               tag |-> tags[CHOOSE i \in bad : \A j \in bad : i <= j]])

\* C7 happens: a well-formed marker, then two different malformed ones; the
\* first malformed one is carried and no set is returned.
C7_Witness ==
    /\ pc = "done"
    /\ Len(query.extensiontags) = 3
    /\ Delimited(query.extensiontags[1])
    /\ ~Delimited(query.extensiontags[2])
    /\ ~Delimited(query.extensiontags[3])
    /\ query.extensiontags[2] # query.extensiontags[3]
    /\ result = Err([kind |-> "MalformedExtensionTag", tag |-> query.extensiontags[2]])

\* The names and aliases of all magic-word records.
MagicWordStrings ==
    UNION { { query.magicwords[i].name }
            \cup { query.magicwords[i].aliases[j] : j \in DOMAIN query.magicwords[i].aliases }
            : i \in DOMAIN query.magicwords }

StartsWithUnderscores(s) == Len(s) >= 2 /\ s[1] = "_" /\ s[2] = "_"

EndsWithUnderscores(s) == Len(s) >= 2 /\ s[Len(s) - 1] = "_" /\ s[Len(s)] = "_"

\* C8 as stated: the result is the set of the lowercase stripped forms of
\* the strings that have a leading and a trailing double-underscore: each
\* of them is kept, each other string is left out.
C8_BothMarkersKept ==
    (pc = "done" /\ calls = <<[fn |-> "magic_words"]>>) =>
        /\ result = { to_lowercase(SubSeq(s, 3, Len(s) - 2)) :
                        s \in { x \in MagicWordStrings :
                                  StartsWithUnderscores(x) /\ EndsWithUnderscores(x) } }
        /\ \A x \in MagicWordStrings :
              (StartsWithUnderscores(x) /\ EndsWithUnderscores(x)) => result # {}

\* C8 amended: the strings kept are those that start with "__" and whose
\* rest, after that "__", ends with "__": the two markers do not overlap,
\* the string has four characters or more.
C8_DisjointMarkersKept ==
    (pc = "done" /\ calls = <<[fn |-> "magic_words"]>>) =>
        result = { to_lowercase(SubSeq(s, 3, Len(s) - 2)) :
                     s \in { x \in MagicWordStrings :
                               /\ Len(x) >= 4
                               /\ StartsWithUnderscores(x)
                               /\ EndsWithUnderscores(x) } }

\* C8 happens: a string of three underscores is left out, while "__A__" is
\* kept as "a" and a string with one marker only is left out.
C8_Witness ==
    /\ pc = "done"
    /\ calls = <<[fn |-> "magic_words"]>>
    /\ <<"_", "_", "_">> \in MagicWordStrings
    /\ <<"_", "_", "A", "_", "_">> \in MagicWordStrings
    /\ <<"_", "_", "A">> \in MagicWordStrings
    /\ result = { <<"a">> }

\* An alias without its first character when that is "#".
WithoutOneHash(a) == IF Len(a) >= 1 /\ a[1] = "#" THEN Tail(a) ELSE a

\* C9: the result is "redirect" and the lowercase aliases, less one leading
\* "#", of the records whose name is exactly "redirect"; other records give
\* nothing and "redirect" is there without any such record.
C9_RedirectAliases ==
    (pc = "done" /\ calls = <<[fn |-> "magic_words_redirect"]>>) =>
        result = { << "r", "e", "d", "i", "r", "e", "c", "t" >> }
                 \cup UNION { { to_lowercase(WithoutOneHash(query.magicwords[i].aliases[j])) :
                                  j \in DOMAIN query.magicwords[i].aliases }
                              : i \in { k \in DOMAIN query.magicwords :
                                          query.magicwords[k].name
                                            = << "r", "e", "d", "i", "r", "e", "c", "t" >> } }

\* C9 happens: a record named "redirect" has the aliases "##r" and "R", a
\* record named "Redirect" has an alias; "#r" and "r" are in the result,
\* and nothing else but "redirect".
C9_Witness ==
    /\ pc = "done"
    /\ calls = <<[fn |-> "magic_words_redirect"]>>
    /\ \E i \in DOMAIN query.magicwords :
          /\ query.magicwords[i].name = << "r", "e", "d", "i", "r", "e", "c", "t" >>
          /\ \E j \in DOMAIN query.magicwords[i].aliases :
                query.magicwords[i].aliases[j] = <<"#", "#", "r">>
    /\ <<"#", "r">> \in result
    /\ << "r", "e", "d", "i", "r", "e", "c", "t" >> \in result
    /\ Cardinality(result) = 2

=============================================================================
